---- MODULE Spec2Model ----
(***************************************************************************)
(* VibeFlare CMS: the Cloudflare Worker that serves /mcp, /api/*,          *)
(* /assets/* and server-rendered pages (the worker source appended to      *)
(* src/wrangler.toml, lines 44-273) with the instruction generator of      *)
(* src/mcp.ts, and the worker of src/index.tsx that serves /mcp/*,         *)
(* /api/save/* and server-rendered pages.                                  *)
(*                                                                         *)
(* Strings are TLA+ strings and are handled character by character         *)
(* (Len, SubSeq, \o), so that prefixes, replacements and containment are   *)
(* computed the way the JavaScript computes them.  Template literals are   *)
(* written with runs of white space collapsed to one space.                *)
(***************************************************************************)
EXTENDS Integers, Sequences, FiniteSets, TLC

VARIABLES
    kv,        \* env.CONTENT : KV namespace, key -> stored string
    bucket,    \* env.BUCKET  : R2 bucket, key -> [body, contentType]
    db,        \* env.DB      : D1 database, number of rows inserted
    request,   \* the request handled last
    response,  \* what the caller of fetch got for it
    calls,     \* the store calls issued while handling it, in order
    handlers,  \* the handlers fetch passed it to, in order
    written,   \* slug -> content of the last successful POST /api/page/slug
    uploaded,  \* key -> body and Content-Type header of the last successful upload
    handled,   \* the number of requests handled so far
    inflight,  \* the invocations of fetch running concurrently, in order of arrival
    applied,   \* the invocations whose put the store has applied, in order of application
    bindings   \* src/index.tsx: whether the environment has its bindings (env.CONTENT)

vars == <<kv, bucket, db, request, response, calls, handlers, written, uploaded, handled,
          inflight, applied, bindings>>

----------------------------------------------------------------------------
(* Bounds of the model *)

\* the number of requests a behaviour handles, one after the other
MaxRequests == 3

\* the number of invocations of fetch in flight together
MaxInFlight == 2

----------------------------------------------------------------------------
(* JavaScript string primitives *)

\* String.prototype.startsWith
StartsWith(s, p) == Len(s) >= Len(p) /\ SubSeq(s, 1, Len(p)) = p

\* String.prototype.endsWith
EndsWith(s, p) == Len(s) >= Len(p) /\ SubSeq(s, Len(s) - Len(p) + 1, Len(s)) = p

\* the positions at which t occurs in s
Occurrences(s, t) ==
    {i \in 1..(Len(s) - Len(t) + 1) : SubSeq(s, i, i + Len(t) - 1) = t}

\* String.prototype.includes
Includes(s, t) == t = "" \/ Occurrences(s, t) # {}

\* String.prototype.replace with a string pattern: the first occurrence only
Replace(s, pat, rep) ==
    IF ~Includes(s, pat) THEN s
    ELSE IF pat = "" THEN rep \o s
    ELSE LET i == CHOOSE k \in Occurrences(s, pat) :
                      \A j \in Occurrences(s, pat) : k <= j
         IN  SubSeq(s, 1, i - 1) \o rep \o SubSeq(s, i + Len(pat), Len(s))

\* String.prototype.slice(n) for 0 <= n
Slice(s, n) == IF n >= Len(s) THEN "" ELSE SubSeq(s, n + 1, Len(s))

----------------------------------------------------------------------------
(* JavaScript values that are a string, undefined or null *)

Str(s) == [t |-> "string", v |-> s]
Undefined == [t |-> "undefined", v |-> ""]
Null == [t |-> "null", v |-> ""]

\* String(x), the coercion a binding applies to a non-string argument
JSString(x) ==
    IF x.t = "string" THEN x.v ELSE IF x.t = "null" THEN "null" ELSE "undefined"

\* x || s where x is a string, undefined or null
ValueOrElse(x, s) == IF x.t = "string" /\ x.v # "" THEN x.v ELSE s

----------------------------------------------------------------------------
(* src/mcp.ts *)

\* generateMCPInstructions: the template literal, with the prose between the
\* endpoint lines shortened and the backquotes left out; every ${baseUrl} of
\* the source is kept, in order.
generateMCPInstructions(baseUrl) ==
    "# VibeFlare CMS Instructions "
    \o "## Content Management (KV Storage) - **Pages stored with pattern**: page:{slug} "
    \o "- **Create/update page**: POST " \o baseUrl \o "/api/page/{slug} "
    \o "- Example: POST " \o baseUrl \o "/api/page/home with {\"content\": \"<h1>Welcome</h1>\"} "
    \o "## Structured Data (D1 Database) "
    \o "- **Execute SQL**: POST " \o baseUrl \o "/api/sql "
    \o "- Example: POST " \o baseUrl \o "/api/sql with {\"sql\": \"INSERT INTO posts ...\"} "
    \o "## Assets (R2 Storage) "
    \o "- **Upload file**: POST " \o baseUrl \o "/api/upload/{key} "
    \o "- Example: POST " \o baseUrl \o "/api/upload/hero.jpg with JPEG binary data "
    \o "- **Access file**: GET " \o baseUrl \o "/assets/{key} "
    \o "## Inline Editing - **Enable edit mode**: Add ?edit to any page URL "
    \o "- **Example**: " \o baseUrl \o "/about?edit opens the about page in edit mode "
    \o "## Common Tasks "
    \o "POST " \o baseUrl \o "/api/page/home "
    \o "POST " \o baseUrl \o "/api/sql "
    \o "POST " \o baseUrl \o "/api/upload/styles.css Content-Type: text/css "
    \o "POST " \o baseUrl \o "/api/page/styles "
    \o "## Error Handling - All endpoints return JSON with success boolean "
    \o "- Failed requests include error field with description "
    \o "Remember: This CMS is designed for agent operation."

\* DEFAULT_THEME: the first and last custom property of :root and the rules of
\* the edit mode, declarations shortened; the comment line is kept.
DEFAULT_THEME ==
    ":root { --color-primary: #3b82f6; --shadow-lg: 0 10px 15px -3px rgb(0 0 0 / 0.1); } "
    \o "/* Edit mode styles */ "
    \o ".edit-mode [contenteditable] { outline: 2px dashed var(--color-primary); } "
    \o ".edit-save-button { position: fixed; z-index: 1000; } "
    \o ".edit-save-button:hover { opacity: 0.9; }"

----------------------------------------------------------------------------
(* The Request and Response objects of the runtime *)

\* new Response(body, {status, headers})
Resp(status, contentType, cacheControl, body) ==
    [kind |-> "response", status |-> status, contentType |-> contentType,
     cacheControl |-> cacheControl, body |-> body, error |-> ""]

\* a promise rejected with an error of the given message
Rejected(message) ==
    [kind |-> "rejected", status |-> 0, contentType |-> "",
     cacheControl |-> "", body |-> "", error |-> message]

\* new Response(text, {status}): a string body gets the default text content type
TextResponse(text, status) == Resp(status, "text/plain;charset=UTF-8", "", text)

\* Response.json(text, {status}), text being the JSON.stringify of the value
JsonResponse(text, status) == Resp(status, "application/json", "", text)

\* JSON.stringify of a string none of whose characters needs an escape
Quote(s) == "\"" \o s \o "\""

\* the value of the one member of the JSON text {"name":"value"}
MemberValue(raw, name) ==
    LET open == "{" \o Quote(name) \o ":\""
    IN  IF StartsWith(raw, open) /\ EndsWith(raw, "\"}")
           /\ Len(raw) >= Len(open) + 2
           /\ ~Includes(SubSeq(raw, Len(open) + 1, Len(raw) - 2), "\"")
        THEN Str(SubSeq(raw, Len(open) + 1, Len(raw) - 2))
        ELSE Undefined

\* request.json(): JSON.parse of the body text, for the texts null, {},
\* {"content":"..."} and {"sql":"..."}; any other text is a SyntaxError.
RequestJson(req) ==
    LET raw == req.body
    IN  IF raw = "null"
        THEN [throws |-> FALSE, isNull |-> TRUE, content |-> Undefined,
              sql |-> Undefined, error |-> ""]
        ELSE IF raw = "{}" \/ MemberValue(raw, "content").t = "string"
                \/ MemberValue(raw, "sql").t = "string"
        THEN [throws |-> FALSE, isNull |-> FALSE,
              content |-> MemberValue(raw, "content"),
              sql |-> MemberValue(raw, "sql"), error |-> ""]
        ELSE [throws |-> TRUE, isNull |-> FALSE, content |-> Undefined,
              sql |-> Undefined,
              error |-> "SyntaxError: Unexpected token in JSON"]

\* const { name } = await request.json(): destructuring null throws a TypeError
Destructure(req) ==
    LET parsed == RequestJson(req)
    IN  IF parsed.isNull
        THEN [parsed EXCEPT !.throws = TRUE,
                            !.error = "TypeError: Cannot destructure property of null"]
        ELSE parsed

\* url.searchParams.has(name) for a query string of at most one parameter
SearchParamsHas(search, name) ==
    \/ search = "?" \o name
    \/ StartsWith(search, "?" \o name \o "=")

----------------------------------------------------------------------------
(* The three stores.  Each is the managed service behind its binding, taken *)
(* as a map that a put changes at once and a get reads as it is; a call     *)
(* either resolves or rejects.                                              *)

KVGetTorn(key) ==
    IF key \in DOMAIN kv THEN Str(SubSeq(kv[key], 1, Len(kv[key]) \div 2)) ELSE Null

\* KVNamespace.get(key): null when the key is absent
KVGet(key) == IF key \in DOMAIN kv THEN Str(kv[key]) ELSE Null

KVPutIfAbsent(key, value) ==
    IF key \in DOMAIN kv THEN kv ELSE [k \in DOMAIN kv \cup {key} |-> IF k = key THEN value ELSE kv[k]]

KVPutAppend(key, value) ==
    [k \in DOMAIN kv \cup {key} |->
        IF k # key THEN kv[k]
        ELSE IF key \in DOMAIN kv THEN kv[key] \o value ELSE value]

\* the namespace after KVNamespace.put(key, value)
KVPut(key, value) == [k \in DOMAIN kv \cup {key} |-> IF k = key THEN value ELSE kv[k]]

\* R2Bucket.get(key): null when the key is absent
R2Get(key) ==
    IF key \in DOMAIN bucket
    THEN [found |-> TRUE, body |-> bucket[key].body,
          contentType |-> bucket[key].contentType]
    ELSE [found |-> FALSE, body |-> "", contentType |-> Null]

\* the bucket after R2Bucket.put(key, body, {httpMetadata: {contentType}})
R2Put(key, body, contentType) ==
    [k \in DOMAIN bucket \cup {key} |->
        IF k = key THEN [body |-> body, contentType |-> Str(contentType)] ELSE bucket[k]]

\* what the database makes of a statement
SqlKind(sql) ==
    IF StartsWith(sql, "SELECT ") THEN "query"
    ELSE IF StartsWith(sql, "INSERT ") THEN "insert"
    ELSE "invalid"

----------------------------------------------------------------------------
(* The worker: page template and default content *)

\* the names of the properties every object literal inherits from Object.prototype
ObjectPrototypeNames ==
    {"constructor", "__proto__", "toString", "toLocaleString", "valueOf",
     "hasOwnProperty", "isPrototypeOf", "propertyIsEnumerable",
     "__defineGetter__", "__defineSetter__", "__lookupGetter__", "__lookupSetter__"}

getDefaultPageContentNoTable(slug) ==
    " <h1>Page: " \o slug \o "</h1> "
    \o "<p>This page doesn't exist yet. Add <code>?edit</code> to create content!</p> "

\* getDefaultPageContent: welcomeContent[slug] || the "doesn't exist yet" text.
\* welcomeContent is an object literal, so the lookup also finds the properties
\* it inherits from Object.prototype; what the page template then interpolates
\* is the string form of the value found.
getDefaultPageContent(slug) ==
    IF slug = "home"
    THEN " <h1>Welcome to VibeFlare</h1> "
         \o "<p>This is your agent-controlled CMS powered by Cloudflare Workers.</p> "
         \o "<p>Add <code>?edit</code> to this URL to start editing, or visit "
         \o "<a href=\"/mcp\">/mcp</a> to see the agent instructions.</p> "
    ELSE IF slug = "about"
    THEN " <h1>About</h1> "
         \o "<p>This page was created automatically. Add <code>?edit</code> to customize it.</p> "
    ELSE IF slug = "constructor" THEN "function Object() { [native code] }"
    ELSE IF slug = "__proto__" THEN "[object Object]"
    ELSE IF slug \in ObjectPrototypeNames
    THEN "function " \o slug \o "() { [native code] }"
    ELSE " <h1>Page: " \o slug \o "</h1> "
         \o "<p>This page doesn't exist yet. Add <code>?edit</code> to create content!</p> "

\* generatePageHTML
generatePageHTML(content, isEditMode, slug, customCSS) ==
    LET editScript ==
            IF isEditMode
            THEN " <script> async function saveContent(slug) { "
                 \o "const content = document.querySelector('main [contenteditable]').innerHTML; "
                 \o "try { const response = await fetch('/api/page/' + slug, { "
                 \o "method: 'POST', headers: { 'Content-Type': 'application/json' }, "
                 \o "body: JSON.stringify({ content }) }); "
                 \o "const result = await response.json(); "
                 \o "if (result.success) { alert('Content saved successfully!'); } "
                 \o "else { alert('Error saving: ' + result.error); } "
                 \o "} catch (error) { alert('Network error: ' + error.message); } } "
                 \o "setInterval(() => { "
                 \o "if (document.querySelector('main [contenteditable]')?.innerHTML.trim()) { "
                 \o "saveContent('" \o slug \o "'); } }, 30000); </script> "
            ELSE ""
        editButton ==
            IF isEditMode
            THEN " <button class=\"edit-save-button\" onclick=\"saveContent('"
                 \o slug \o "')\" > Save </button> "
            ELSE ""
        mainContent ==
            IF isEditMode
            THEN "<div contenteditable=\"true\">" \o content \o "</div>"
            ELSE "<div>" \o content \o "</div>"
    IN  "<!DOCTYPE html> <html lang=\"en\"> <head> <meta charset=\"utf-8\" /> "
        \o "<meta name=\"viewport\" content=\"width=device-width, initial-scale=1\" /> "
        \o "<title>VibeFlare CMS</title> "
        \o "<style>" \o DEFAULT_THEME \o "</style> "
        \o (IF customCSS # "" THEN "<style>" \o customCSS \o "</style>" ELSE "")
        \o " </head> <body class=\"" \o (IF isEditMode THEN "edit-mode" ELSE "") \o "\"> "
        \o "<main>" \o mainContent \o "</main> "
        \o editButton \o " " \o editScript
        \o " </body> </html>"

----------------------------------------------------------------------------
(* The worker: the handlers.  A handler is an async function: what it yields *)
(* is a response or a rejection.  Done records it with the stores it leaves. *)

\* the slug and the content a page write carries, read off the request itself
PostedSlug(req) == Slice(req.path, 10)
PostedContent(req) == MemberValue(req.body, "content")
IsPagePost(req) == req.method = "POST" /\ StartsWith(req.path, "/api/page/")

\* the key an upload names, read off the request itself
PostedKey(req) == Slice(req.path, 12)
IsUploadPost(req) == req.method = "POST" /\ StartsWith(req.path, "/api/upload/")

Answered200(out) == out.kind = "response" /\ out.status = 200

Done(req, hs, cs, out, kv2, bucket2, db2) ==
    /\ request' = req
    /\ handlers' = hs
    /\ calls' = cs
    /\ response' = out
    /\ kv' = kv2
    /\ bucket' = bucket2
    /\ db' = db2
    /\ written' =
          IF IsPagePost(req) /\ Answered200(out)
          THEN [s \in DOMAIN written \cup {PostedSlug(req)} |->
                   IF s = PostedSlug(req) THEN PostedContent(req) ELSE written[s]]
          ELSE written
    /\ uploaded' =
          IF IsUploadPost(req) /\ Answered200(out)
          THEN [k \in DOMAIN uploaded \cup {PostedKey(req)} |->
                   IF k = PostedKey(req)
                   THEN [body |-> req.body, contentType |-> req.contentType]
                   ELSE uploaded[k]]
          ELSE uploaded

Call(store, op, key, ok) == [store |-> store, op |-> op, key |-> key, ok |-> ok]

\* slug of POST /api/page/:slug
apiPageSlug(path) == Replace(path, "/api/page/", "")

\* the key a page is put under
putPageKey(slug) == "page:" \o slug

\* key of POST /api/upload/:key
apiUploadKey(path) == Replace(path, "/api/upload/", "")

uploadContentTypeIgnored(header) == "application/octet-stream"

\* the content type an upload is stored with
uploadContentType(header) == ValueOrElse(header, "application/octet-stream")

sqlErrorJsonNoMessage(thrownIsError, message, sql) ==
    "{\"success\":false,\"error\":" \o Quote("")
    \o (IF sql.t = "string" THEN ",\"sql\":" \o Quote(sql.v) ELSE "") \o "}"

\* the body of the answer to a statement the database rejected
sqlErrorJson(thrownIsError, message, sql) ==
    "{\"success\":false,\"error\":"
    \o Quote(IF thrownIsError THEN message ELSE "Database error")
    \o (IF sql.t = "string" THEN ",\"sql\":" \o Quote(sql.v) ELSE "")
    \o "}"

\* the answers to a page write and to an upload
pageSaved(slug) == JsonResponse("{\"success\":true,\"slug\":" \o Quote(slug) \o "}", 200)
assetSaved(key) == JsonResponse("{\"success\":true,\"key\":" \o Quote(key) \o "}", 200)

\* POST /api/page/:slug
apiPage(req, hs) ==
    LET slug == apiPageSlug(req.path)
        parsed == Destructure(req)
        key == putPageKey(slug)
    IN  IF parsed.throws
        THEN Done(req, hs, << >>, Rejected(parsed.error), kv, bucket, db)
        ELSE \/ Done(req, hs, <<Call("CONTENT", "put", key, TRUE)>>,
                     pageSaved(slug),
                     KVPut(key, JSString(parsed.content)), bucket, db)
             \/ Done(req, hs, <<Call("CONTENT", "put", key, FALSE)>>,
                     Rejected("KV PUT failed"), kv, bucket, db)

\* POST /api/sql
apiSql(req, hs) ==
    LET parsed == Destructure(req)
        sql == parsed.sql
        kind == IF sql.t = "string" THEN SqlKind(sql.v) ELSE "invalid"
        call(ok) == <<Call("DB", "all", JSString(sql), ok)>>
    IN  IF parsed.throws
        THEN Done(req, hs, << >>, Rejected(parsed.error), kv, bucket, db)
        ELSE \/ /\ kind = "query"
                /\ Done(req, hs, call(TRUE),
                        JsonResponse("{\"success\":true,\"results\":[],\"meta\":{}}", 200),
                        kv, bucket, db)
             \/ /\ kind = "insert"
                /\ Done(req, hs, call(TRUE),
                        JsonResponse("{\"success\":true,\"results\":[],\"meta\":{}}", 200),
                        kv, bucket, db + 1)
             \/ \E thrownIsError \in BOOLEAN :
                    Done(req, hs, call(FALSE),
                         JsonResponse(sqlErrorJson(thrownIsError, "D1_ERROR: " \o kind, sql), 400),
                         kv, bucket, db)

apiUploadSharedKeys(req, hs) ==
    LET key == apiUploadKey(req.path)
    IN  Done(req, hs, <<Call("CONTENT", "put", "page:" \o key, TRUE)>>,
             assetSaved(key), KVPut("page:" \o key, req.body), bucket, db)

apiUploadWithIndex(req, hs) ==
    LET key == apiUploadKey(req.path)
    IN  Done(req, hs,
             <<Call("BUCKET", "put", key, TRUE), Call("CONTENT", "put", "asset:" \o key, TRUE)>>,
             JsonResponse("{\"success\":true,\"key\":" \o Quote(key) \o "}", 200),
             KVPut("asset:" \o key, "1"),
             R2Put(key, req.body, uploadContentType(req.contentType)), db)

\* POST /api/upload/:key
apiUpload(req, hs) ==
    LET key == apiUploadKey(req.path)
        contentType == uploadContentType(req.contentType)
    IN  \/ Done(req, hs, <<Call("BUCKET", "put", key, TRUE)>>,
                assetSaved(key),
                kv, R2Put(key, req.body, contentType), db)
        \/ Done(req, hs, <<Call("BUCKET", "put", key, FALSE)>>,
                Rejected("R2 put failed"), kv, bucket, db)

isPageWritePutOnly(path, method) == StartsWith(path, "/api/page/") /\ method = "PUT"

isPageWriteAnyMethod(path, method) == StartsWith(path, "/api/page/")

\* the three conditions handleAPI tests, in its order
isPageWrite(path, method) == StartsWith(path, "/api/page/") /\ method = "POST"
isSqlCall(path, method) == path = "/api/sql" /\ method = "POST"
isUpload(path, method) == StartsWith(path, "/api/upload/") /\ method = "POST"

handleAPI(req, hs) ==
    LET method == req.method
        path == req.path
    IN  IF isPageWrite(path, method) THEN apiPage(req, hs)
        ELSE IF isSqlCall(path, method) THEN apiSql(req, hs)
        ELSE IF isUpload(path, method) THEN apiUpload(req, hs)
        ELSE Done(req, hs, << >>, TextResponse("API endpoint not found", 404),
                  kv, bucket, db)

\* key of GET /assets/:key
assetKey(path) == Replace(path, "/assets/", "")

assetResponseNoCache(object) ==
    Resp(200, ValueOrElse(object.contentType, "application/octet-stream"), "", object.body)

\* the response that serves a stored object
assetResponse(object) ==
    Resp(200, ValueOrElse(object.contentType, "application/octet-stream"),
         "public, max-age=31536000", object.body)

handleAssetsWritable(req, hs) ==
    LET key == assetKey(req.path)
    IN  IF req.method = "GET"
        THEN Done(req, hs, <<Call("BUCKET", "get", key, TRUE)>>,
                  IF R2Get(key).found THEN assetResponse(R2Get(key))
                  ELSE TextResponse("Asset not found", 404),
                  kv, bucket, db)
        ELSE Done(req, hs, <<Call("BUCKET", "put", key, TRUE)>>,
                  TextResponse("Asset stored", 200),
                  kv, R2Put(key, req.body, uploadContentType(req.contentType)), db)

handleAssets(req, hs) ==
    LET key == assetKey(req.path)
    IN  \/ Done(req, hs, <<Call("BUCKET", "get", key, TRUE)>>,
                IF R2Get(key).found
                THEN assetResponse(R2Get(key))
                ELSE TextResponse("Asset not found", 404),
                kv, bucket, db)
        \/ Done(req, hs, <<Call("BUCKET", "get", key, FALSE)>>,
                Rejected("R2 get failed"), kv, bucket, db)

renderSlugNoHome(path) == Slice(path, 1)

\* slug of a page path
renderSlug(path) == IF path = "/" THEN "home" ELSE Slice(path, 1)

getPageKeyPlural(slug) == "pages:" \o slug

\* the key a page is read from
getPageKey(slug) == "page:" \o slug

stylesKeySingular == "page:style"

\* the key the custom style sheet is read from
stylesKey == "page:styles"

handlePageRenderCached(req, hs, isEditMode) ==
    LET slug == renderSlug(req.path)
        key == getPageKey(slug)
        content == ValueOrElse(KVGet(key), getDefaultPageContent(slug))
        customCSS == ValueOrElse(KVGet(stylesKey), "")
        cached == handlers = hs /\ request.path = req.path /\ response.kind = "response"
    IN  Done(req, hs,
             IF cached THEN << >>
             ELSE <<Call("CONTENT", "get", key, TRUE), Call("CONTENT", "get", stylesKey, TRUE)>>,
             IF cached THEN response
             ELSE Resp(200, "text/html; charset=utf-8", "",
                       generatePageHTML(content, isEditMode, slug, customCSS)),
             kv, bucket, db)

handlePageRender(req, hs, isEditMode) ==
    LET slug == renderSlug(req.path)
        key == getPageKey(slug)
        content == ValueOrElse(KVGet(key), getDefaultPageContent(slug))
        customCSS == ValueOrElse(KVGet(stylesKey), "")
        pageHTML == generatePageHTML(content, isEditMode, slug, customCSS)
    IN  \/ Done(req, hs, <<Call("CONTENT", "get", key, TRUE),
                           Call("CONTENT", "get", stylesKey, TRUE)>>,
                Resp(200, "text/html; charset=utf-8", "", pageHTML), kv, bucket, db)
        \/ Done(req, hs, <<Call("CONTENT", "get", key, FALSE)>>,
                Rejected("KV GET failed"), kv, bucket, db)
        \/ Done(req, hs, <<Call("CONTENT", "get", key, TRUE),
                           Call("CONTENT", "get", stylesKey, FALSE)>>,
                Rejected("KV GET failed"), kv, bucket, db)

isMcpRouteGetOnly(req) == req.path = "/mcp" /\ req.method = "GET"

isAssetsRouteNoSlash(path) == StartsWith(path, "/assets")

mcpBaseUrlWithQuery(req) == req.origin \o req.path \o req.search

\* the base URL the instruction generator is given: url.origin
mcpBaseUrl(req) == req.origin

\* the three conditions fetch tests, in its order
isMcpRoute(req) == req.path = "/mcp"
isApiRoute(path) == StartsWith(path, "/api/")
isAssetsRoute(path) == StartsWith(path, "/assets/")

\* export default { fetch }: the handlers are returned, not awaited, so what a
\* handler yields, a rejection included, is what the caller of fetch gets.  The
\* catch block of fetch would run only on an exception thrown before a handler
\* is called, and nothing in the try block throws one.
fetch(req) ==
    LET path == req.path
        isEditMode == SearchParamsHas(req.search, "edit")
    IN  IF isMcpRoute(req)
        THEN Done(req, <<"generateMCPInstructions">>, << >>,
                  Resp(200, "text/plain", "", generateMCPInstructions(mcpBaseUrl(req))),
                  kv, bucket, db)
        ELSE IF isApiRoute(path) THEN handleAPI(req, <<"handleAPI">>)
        ELSE IF isAssetsRoute(path) THEN handleAssets(req, <<"handleAssets">>)
        ELSE handlePageRender(req, <<"handlePageRender">>, isEditMode)

----------------------------------------------------------------------------
(* The requests the model sends *)

Methods == {"GET", "POST", "PUT"}

Paths ==
    {"/", "/home", "/about", "/constructor", "/blog/x", "/mcp", "/mcp/pages",
     "/api", "/api/page", "/api/page/home", "/api/page/styles", "/api/page/mcp",
     "/api/page/assets/a.css", "/api/sql", "/api/upload/a.css", "/api/other",
     "/assets", "/assets/a.css", "/assets/none"}

\* the pages written, each with the contents it is given
PageWrites ==
    {<<"/api/page/home", c>> : c \in {"", "<b>A</b>", "<i>B</i>"}}
    \cup {<<"/api/page/styles", c>> : c \in {"", "p{x}"}}
    \cup {<<"/api/page/mcp", "<b>A</b>">>, <<"/api/page/assets/a.css", "<b>A</b>">>}

ContentBody(c) == "{\"content\":" \o Quote(c) \o "}"

SqlBody(q) == "{\"sql\":" \o Quote(q) \o "}"

Statements == {"SELECT * FROM posts", "INSERT INTO posts (title) VALUES ('a')", "SELEC"}

Origin == "https://cms.example"

OtherOrigin == "http://localhost:8787"

Req(method, path, search, body, contentType) ==
    [method |-> method, origin |-> Origin, path |-> path, search |-> search,
     body |-> body, contentType |-> contentType]

Requests ==
    \* every method on every path, without a body
    {Req(m, p, "", "", Null) : m \in Methods, p \in Paths}
    \* page writes
    \cup {Req("POST", w[1], "", ContentBody(w[2]), Str("application/json")) :
             w \in PageWrites}
    \* page writes with a body that has no content, is null, or is no JSON
    \cup {Req("POST", "/api/page/home", "", b, Str("application/json")) :
             b \in {"{}", "null", "{content"}}
    \* statements
    \cup {Req("POST", "/api/sql", "", SqlBody(q), Str("application/json")) :
             q \in Statements}
    \cup {Req("POST", "/api/sql", "", "{}", Str("application/json"))}
    \* uploads
    \cup {Req("POST", "/api/upload/a.css", "", "p{x}", t) :
             t \in {Null, Str(""), Str("text/css")}}
    \* an upload under a key that is also the slug of a page
    \cup {Req("POST", "/api/upload/home", "", "p{x}", Str("text/css"))}
    \* pages in edit mode
    \cup {Req("GET", p, "?edit", "", Null) :
             p \in {"/", "/home", "/about", "/constructor", "/blog/x"}}
    \* the instructions asked for with a query string and from another origin
    \cup {Req("GET", "/mcp", "?edit", "", Null),
          [Req("GET", "/mcp", "", "", Null) EXCEPT !.origin = OtherOrigin]}

----------------------------------------------------------------------------
(* The specification *)

NoRequest == Req("", "", "", "", Null)

\* nothing stored, nothing handled
Fresh ==
    /\ kv = << >>
    /\ bucket = << >>
    /\ db = 0
    /\ request = NoRequest
    /\ response = Rejected("")
    /\ calls = << >>
    /\ handlers = << >>
    /\ written = << >>
    /\ uploaded = << >>
    /\ handled = 0
    /\ inflight = << >>
    /\ applied = << >>

Init == Fresh /\ bindings = TRUE

Next ==
    /\ handled < MaxRequests
    /\ handled' = handled + 1
    /\ \E req \in Requests : fetch(req)
    /\ UNCHANGED <<inflight, applied, bindings>>

Spec == Init /\ [][Next]_vars

----------------------------------------------------------------------------
(* Concurrent invocations.  Each request runs its own invocation of fetch;  *)
(* an invocation runs alone up to its next await, so the invocations of     *)
(* the two write handlers interleave at `await request.json()` and at       *)
(* `await env.*.put(...)`.  The store applies each put as one step, at a    *)
(* moment of its own choosing between the call and its resolution.          *)

\* writes in flight together
WriteRequests ==
    {Req("POST", "/api/page/home", "", ContentBody(c), Str("application/json")) :
        c \in {"<b>A</b>", "<i>B</i>"}}
    \cup {Req("POST", "/api/page/home", "", "{content", Str("application/json"))}
    \cup {Req("POST", "/api/page/about", "", ContentBody("<b>A</b>"), Str("application/json"))}
    \cup {Req("POST", "/api/upload/a.css", "", "p{x}", Str("text/css")),
          Req("POST", "/api/upload/a.css", "", "q{y}", Null)}

\* requests of every kind in flight together: writes (a page, the style
\* sheet, an asset, a statement) and reads
OtherRequests ==
    {Req("POST", "/api/page/home", "", ContentBody("<b>A</b>"), Str("application/json")),
     Req("POST", "/api/page/home", "", "{content", Str("application/json")),
     Req("POST", "/api/page/styles", "", ContentBody("q{y}"), Str("application/json")),
     Req("POST", "/api/upload/a.css", "", "p{x}", Str("text/css")),
     Req("POST", "/api/sql", "", SqlBody("INSERT INTO posts (title) VALUES ('a')"),
         Str("application/json")),
     Req("GET", "/home", "?edit", "", Null),
     Req("GET", "/assets/a.css", "", "", Null),
     Req("GET", "/mcp", "", "", Null),
     Req("GET", "/api/other", "", "", Null)}

\* the branch of fetch and handleAPI a request takes
routeOf(req) ==
    IF isMcpRoute(req) THEN "mcp"
    ELSE IF isApiRoute(req.path)
    THEN IF isPageWrite(req.path, req.method) THEN "page"
         ELSE IF isSqlCall(req.path, req.method) THEN "sql"
         ELSE IF isUpload(req.path, req.method) THEN "upload"
         ELSE "none"
    ELSE IF isAssetsRoute(req.path) THEN "asset"
    ELSE "render"

\* where an invocation stands: its request, its position, its outcome, the
\* store calls it has issued, what its reads returned, and the values its
\* page and the style sheet have held since it arrived
Invocation(req, pc, out) ==
    [req |-> req, pc |-> pc, out |-> out, calls |-> << >>,
     content |-> Null, customCSS |-> Null, object |-> R2Get(""), held |-> {}]

\* the invocation i moves to pc with the outcome out
Moved(i, pc, out) == [inflight EXCEPT ![i].pc = pc, ![i].out = out]

\* the invocation i moves to pc, having issued a store call
Called(i, pc, call) ==
    [inflight EXCEPT ![i].pc = pc, ![i].calls = Append(@, call)]

\* what the page store holds under a key
Holding(store, key) == IF key \in DOMAIN store THEN Str(store[key]) ELSE Null

\* the keys a render reads
renderKeys(req) == {getPageKey(renderSlug(req.path)), stylesKey}

\* the renders in flight take note of what the page store holds
Observed(invocations, store) ==
    [j \in DOMAIN invocations |->
        IF routeOf(invocations[j].req) = "render" /\ invocations[j].pc # "done"
        THEN [invocations[j] EXCEPT
                 !.held = @ \cup {<<k, Holding(store, k)>> : k \in renderKeys(invocations[j].req)}]
        ELSE invocations[j]]

\* fetch starts on a write request and runs to its first await: request.json()
\* for a page write, the put for an upload
Receive(req) ==
    /\ Len(inflight) < MaxInFlight
    /\ isApiRoute(req.path)
    /\ isPageWrite(req.path, req.method) \/ isUpload(req.path, req.method)
    /\ inflight' = Append(inflight,
                          Invocation(req,
                                     IF isPageWrite(req.path, req.method) THEN "json" ELSE "put",
                                     Rejected("")))
    /\ UNCHANGED <<kv, bucket, db, request, response, calls, handlers, written, uploaded,
                   handled, applied, bindings>>

\* fetch starts on another request and runs to its first await, or to its
\* return when there is none
ReceiveOther(req) ==
    /\ Len(inflight) < MaxInFlight
    /\ routeOf(req) \notin {"page", "upload"}
    /\ LET route == routeOf(req)
           started ==
               IF route = "mcp"
               THEN Invocation(req, "done",
                               Resp(200, "text/plain", "", generateMCPInstructions(mcpBaseUrl(req))))
               ELSE IF route = "none"
               THEN Invocation(req, "done", TextResponse("API endpoint not found", 404))
               ELSE Invocation(req,
                               IF route = "sql" THEN "json"
                               ELSE IF route = "asset" THEN "get" ELSE "get1",
                               Rejected(""))
       IN  inflight' = Observed(Append(inflight, started), kv)
    /\ UNCHANGED <<kv, bucket, db, request, response, calls, handlers, written, uploaded,
                   handled, applied, bindings>>

\* `const { content } = await request.json()` settles
ReadBody(i) ==
    /\ inflight[i].pc = "json"
    /\ LET parsed == Destructure(inflight[i].req)
       IN  inflight' = IF parsed.throws
                       THEN Moved(i, "done", Rejected(parsed.error))
                       ELSE Moved(i, IF routeOf(inflight[i].req) = "sql" THEN "all" ELSE "put",
                                  inflight[i].out)
    /\ UNCHANGED <<kv, bucket, db, request, response, calls, handlers, written, uploaded,
                   handled, applied, bindings>>

StorePutRetried(i) ==
    /\ inflight[i].pc = "put"
    /\ \/ /\ Len(inflight[i].calls) < 2
          /\ inflight' = Called(i, "put", Call("CONTENT", "put", "", FALSE))
       \/ inflight' = Called(i, "rejected", Call("CONTENT", "put", "", FALSE))
    /\ UNCHANGED <<kv, bucket, db, request, response, calls, handlers, written, uploaded,
                   handled, applied, bindings>>

\* the store applies the put of invocation i, or fails it
StorePut(i) ==
    /\ inflight[i].pc = "put"
    /\ LET req == inflight[i].req
           page == isPageWrite(req.path, req.method)
           call(ok) == IF page
                       THEN Call("CONTENT", "put", putPageKey(apiPageSlug(req.path)), ok)
                       ELSE Call("BUCKET", "put", apiUploadKey(req.path), ok)
       IN  \/ /\ IF page
                  THEN /\ kv' = KVPut(putPageKey(apiPageSlug(req.path)),
                                     JSString(Destructure(req).content))
                       /\ bucket' = bucket
                  ELSE /\ bucket' = R2Put(apiUploadKey(req.path), req.body,
                                         uploadContentType(req.contentType))
                       /\ kv' = kv
              /\ applied' = Append(applied, i)
              /\ inflight' = Observed(Called(i, "resolved", call(TRUE)), kv')
           \/ /\ inflight' = Called(i, "rejected", call(FALSE))
              /\ UNCHANGED <<kv, bucket, applied>>
    /\ UNCHANGED <<db, request, response, calls, handlers, written, uploaded, handled,
                   bindings>>

\* the store answers the read an invocation waits for, or fails it: the read
\* of an asset, and the two reads of a render, the second issued when the
\* first has resolved
StoreGet(i) ==
    /\ inflight[i].pc \in {"get", "get1", "get2"}
    /\ LET req == inflight[i].req
           pc == inflight[i].pc
           key == IF pc = "get" THEN assetKey(req.path)
                  ELSE IF pc = "get1" THEN getPageKey(renderSlug(req.path))
                  ELSE stylesKey
           store == IF pc = "get" THEN "BUCKET" ELSE "CONTENT"
           read == Called(i, IF pc = "get1" THEN "get2" ELSE "resolved",
                          Call(store, "get", key, TRUE))
       IN  \/ inflight' =
                  IF pc = "get" THEN [read EXCEPT ![i].object = R2Get(key)]
                  ELSE IF pc = "get1" THEN [read EXCEPT ![i].content = KVGet(key)]
                  ELSE [read EXCEPT ![i].customCSS = KVGet(key)]
           \/ inflight' = Called(i, "rejected", Call(store, "get", key, FALSE))
    /\ UNCHANGED <<kv, bucket, db, request, response, calls, handlers, written, uploaded,
                   handled, applied, bindings>>

\* the database runs the statement of invocation i, or rejects it
StoreAll(i) ==
    /\ inflight[i].pc = "all"
    /\ LET sql == Destructure(inflight[i].req).sql
           kind == IF sql.t = "string" THEN SqlKind(sql.v) ELSE "invalid"
       IN  \/ /\ kind \in {"query", "insert"}
              /\ db' = IF kind = "insert" THEN db + 1 ELSE db
              /\ inflight' = Called(i, "resolved", Call("DB", "all", JSString(sql), TRUE))
           \/ /\ db' = db
              /\ inflight' = Called(i, "rejected", Call("DB", "all", JSString(sql), FALSE))
    /\ UNCHANGED <<kv, bucket, request, response, calls, handlers, written, uploaded,
                   handled, applied, bindings>>

\* what an invocation returns when the call it awaited has resolved
resolvedWith(inv) ==
    LET req == inv.req
        route == routeOf(req)
        slug == renderSlug(req.path)
    IN  IF route = "page" THEN pageSaved(apiPageSlug(req.path))
        ELSE IF route = "upload" THEN assetSaved(apiUploadKey(req.path))
        ELSE IF route = "sql"
        THEN JsonResponse("{\"success\":true,\"results\":[],\"meta\":{}}", 200)
        ELSE IF route = "asset"
        THEN IF inv.object.found THEN assetResponse(inv.object)
             ELSE TextResponse("Asset not found", 404)
        ELSE Resp(200, "text/html; charset=utf-8", "",
                  generatePageHTML(ValueOrElse(inv.content, getDefaultPageContent(slug)),
                                   SearchParamsHas(req.search, "edit"), slug,
                                   ValueOrElse(inv.customCSS, "")))

\* what it yields when that call has rejected: the rejection itself, but for
\* a statement, whose rejection the handler catches
rejectedWith(inv) ==
    LET route == routeOf(inv.req)
        sql == Destructure(inv.req).sql
        kind == IF sql.t = "string" THEN SqlKind(sql.v) ELSE "invalid"
    IN  IF route = "sql"
        THEN {JsonResponse(sqlErrorJson(thrownIsError, "D1_ERROR: " \o kind, sql), 400) :
                 thrownIsError \in BOOLEAN}
        ELSE {Rejected(IF route = "upload" THEN "R2 put failed"
                       ELSE IF route = "asset" THEN "R2 get failed"
                       ELSE IF route = "page" THEN "KV PUT failed" ELSE "KV GET failed")}

\* the awaited call settles and the invocation returns
Return(i) ==
    /\ inflight[i].pc \in {"resolved", "rejected"}
    /\ \E out \in IF inflight[i].pc = "rejected" THEN rejectedWith(inflight[i])
                  ELSE {resolvedWith(inflight[i])} :
           inflight' = Moved(i, "done", out)
    /\ UNCHANGED <<kv, bucket, db, request, response, calls, handlers, written, uploaded,
                   handled, applied, bindings>>

ConcurrentNext ==
    \/ \E req \in WriteRequests : Receive(req)
    \/ \E i \in DOMAIN inflight : ReadBody(i)
    \/ \E i \in DOMAIN inflight : StorePut(i)
    \/ \E i \in DOMAIN inflight : Return(i)

ConcurrentSpec == Init /\ [][ConcurrentNext]_vars

\* all kinds of requests in flight together
InterleavedNext ==
    \/ \E req \in OtherRequests : Receive(req)
    \/ \E req \in OtherRequests : ReceiveOther(req)
    \/ \E i \in DOMAIN inflight : ReadBody(i)
    \/ \E i \in DOMAIN inflight : StorePut(i)
    \/ \E i \in DOMAIN inflight : StoreGet(i)
    \/ \E i \in DOMAIN inflight : StoreAll(i)
    \/ \E i \in DOMAIN inflight : Return(i)

InterleavedSpec == Init /\ [][InterleavedNext]_vars

----------------------------------------------------------------------------
(* src/index.tsx: the worker that answers /mcp/*, /api/save/* and renders   *)
(* pages with mono-jsx.                                                     *)

\* s.split(sep) for a separator of one character
RECURSIVE Split(_, _)
Split(s, sep) ==
    LET at == {i \in 1..Len(s) : SubSeq(s, i, i) = sep}
    IN  IF at = {} THEN <<s>>
        ELSE LET i == CHOOSE j \in at : \A k \in at : j <= k
             IN  <<SubSeq(s, 1, i - 1)>> \o Split(SubSeq(s, i + 1, Len(s)), sep)

\* parts.join(sep)
RECURSIVE Join(_, _)
Join(parts, sep) ==
    IF parts = << >> THEN ""
    ELSE IF Len(parts) = 1 THEN parts[1]
    ELSE parts[1] \o sep \o Join(Tail(parts), sep)

\* parts.slice(n)
SliceSeq(parts, n) == SubSeq(parts, n + 1, Len(parts))

\* the characters of the keys in use, in the order of their code points
CodePoints == "-./01:abcdeghklmnoprstuwxy"

CodePoint(c) == CHOOSE i \in 1..Len(CodePoints) : SubSeq(CodePoints, i, i) = c

\* a < b in the order of the keys of a KV listing (by code point)
RECURSIVE KeyBefore(_, _)
KeyBefore(a, b) ==
    IF b = "" THEN FALSE
    ELSE IF a = "" THEN TRUE
    ELSE LET x == CodePoint(SubSeq(a, 1, 1))
             y == CodePoint(SubSeq(b, 1, 1))
         IN  IF x # y THEN x < y
             ELSE KeyBefore(SubSeq(a, 2, Len(a)), SubSeq(b, 2, Len(b)))

\* the keys of a set, in that order
RECURSIVE InKeyOrder(_)
InKeyOrder(keys) ==
    IF keys = {} THEN << >>
    ELSE LET first == CHOOSE k \in keys : \A o \in keys \ {k} : KeyBefore(k, o)
         IN  <<first>> \o InKeyOrder(keys \ {first})

\* the number of keys one KVNamespace.list call returns at most: 1000 in the
\* service, which answers list_complete: false and a cursor for the rest;
\* the listing here is scaled to one key a call
KVListLimit == 1

\* (await KVNamespace.list({prefix})).keys, as names: the first page of the
\* listing, which is all the call site reads
KVList(prefix) ==
    LET names == InKeyOrder({k \in DOMAIN kv : StartsWith(k, prefix)})
    IN  SubSeq(names, 1, IF Len(names) < KVListLimit THEN Len(names) ELSE KVListLimit)

\* the bindings the handlers use: those of the environment, or the mock
\* objects fetch puts in their place when env.CONTENT is missing
ContentGet(key) == IF bindings THEN KVGet(key) ELSE Null
ContentPut(key, value) == IF bindings THEN KVPut(key, value) ELSE kv
ContentList(prefix) == IF bindings THEN KVList(prefix) ELSE << >>
BucketGet(key) == IF bindings THEN R2Get(key) ELSE [found |-> FALSE, body |-> "", contentType |-> Null]
BucketPut(key, body, contentType) == IF bindings THEN R2Put(key, body, contentType) ELSE bucket

\* JSON.stringify of an array of strings
RECURSIVE Quoted(_)
Quoted(names) == IF names = << >> THEN << >> ELSE <<Quote(names[1])>> \o Quoted(Tail(names))

JsonArray(names) == "[" \o Join(Quoted(names), ",") \o "]"

\* the response of the catch blocks: {error: error.message}, status 500
errorJson(message) == JsonResponse("{\"error\":" \o Quote(message) \o "}", 500)

\* the slug or key a POST to /mcp/page/ or /api/save/ names, and the request
\* being such a POST: read from the request itself, for the record of writes
SavedSlug(req) == Slice(req.path, 10)

IsSave(req) ==
    /\ req.method = "POST"
    /\ StartsWith(req.path, "/mcp/page/") \/ StartsWith(req.path, "/api/save/")

\* a request handled by this worker
Answer(req, hs, cs, out, kv2, bucket2, db2) ==
    /\ request' = req
    /\ handlers' = hs
    /\ calls' = cs
    /\ response' = out
    /\ kv' = kv2
    /\ bucket' = bucket2
    /\ db' = db2
    /\ written' =
          IF IsSave(req) /\ Answered200(out)
          THEN [s \in DOMAIN written \cup {SavedSlug(req)} |->
                   IF s = SavedSlug(req) THEN PostedContent(req) ELSE written[s]]
          ELSE written
    /\ UNCHANGED <<uploaded, inflight, applied, bindings>>

\* a call on a binding may reject; the mock objects never do
MayReject == bindings

slugOfKey(name) == Replace(name, "page:", "")

RECURSIVE slugsOf(_)
slugsOf(names) ==
    IF names = << >> THEN << >> ELSE <<slugOfKey(names[1])>> \o slugsOf(Tail(names))

\* GET /mcp/pages
handleMcpPages(req, hs) ==
    LET call(ok) == <<Call("CONTENT", "list", "page:", ok)>>
    IN  \/ Answer(req, hs, call(TRUE),
                  JsonResponse("{\"pages\":" \o JsonArray(slugsOf(ContentList("page:"))) \o "}", 200),
                  kv, bucket, db)
        \/ /\ MayReject
           /\ Answer(req, hs, call(FALSE), errorJson("KV LIST failed"), kv, bucket, db)

FalsyNullOnly(x) == x.t # "string"

\* !content
Falsy(x) == x.t # "string" \/ x.v = ""

pageKey(slug) == "page:" \o slug

\* GET and POST /mcp/page/:slug
handleMcpPage(req, hs, slug) ==
    LET key == pageKey(slug)
        content == ContentGet(key)
        parsed == Destructure(req)
        call(op, ok) == <<Call("CONTENT", op, key, ok)>>
    IN  IF req.method = "GET"
        THEN \/ Answer(req, hs, call("get", TRUE),
                       IF Falsy(content)
                       THEN JsonResponse("{\"error\":\"Page not found\"}", 404)
                       ELSE JsonResponse("{\"slug\":" \o Quote(slug) \o ",\"content\":"
                                         \o Quote(content.v) \o "}", 200),
                       kv, bucket, db)
             \/ /\ MayReject
                /\ Answer(req, hs, call("get", FALSE), errorJson("KV GET failed"),
                          kv, bucket, db)
        ELSE IF req.method = "POST"
        THEN IF parsed.throws
             THEN Answer(req, hs, << >>, errorJson(parsed.error), kv, bucket, db)
             ELSE \/ Answer(req, hs, call("put", TRUE),
                            JsonResponse("{\"success\":true,\"slug\":" \o Quote(slug) \o "}", 200),
                            ContentPut(key, JSString(parsed.content)), bucket, db)
                  \/ /\ MayReject
                     /\ Answer(req, hs, call("put", FALSE), errorJson("KV PUT failed"),
                               kv, bucket, db)
        ELSE Answer(req, hs, << >>, TextResponse("Method not allowed", 405), kv, bucket, db)

\* Object.keys(data).join(', ') for the bodies request.json() reads
columnsOf(raw) ==
    IF MemberValue(raw, "content").t = "string" THEN "content"
    ELSE IF MemberValue(raw, "sql").t = "string" THEN "sql" ELSE ""

\* GET and POST /mcp/data/:table
handleMcpData(req, hs, table) ==
    LET parsed == RequestJson(req)
        select == "SELECT * FROM " \o table
        columns == columnsOf(req.body)
        insert == "INSERT INTO " \o table \o " (" \o columns \o ") VALUES ("
                  \o (IF columns = "" THEN "" ELSE "?") \o ")"
    IN  IF req.method = "GET"
        THEN \/ Answer(req, hs, <<Call("DB", "all", select, TRUE)>>,
                       JsonResponse("{\"results\":[]}", 200), kv, bucket, db)
             \/ /\ MayReject
                /\ Answer(req, hs, <<Call("DB", "all", select, FALSE)>>,
                          errorJson("D1_ERROR: no such table"), kv, bucket, db)
        ELSE IF req.method = "POST"
        THEN IF parsed.throws
             THEN Answer(req, hs, << >>, errorJson(parsed.error), kv, bucket, db)
             ELSE IF parsed.isNull
             THEN Answer(req, hs, << >>,
                         errorJson("TypeError: Cannot convert undefined or null to object"),
                         kv, bucket, db)
             ELSE \/ /\ columns # "" \/ ~bindings
                     /\ Answer(req, hs, <<Call("DB", "run", insert, TRUE)>>,
                               JsonResponse("{\"success\":true,\"result\":{}}", 200),
                               kv, bucket, IF bindings THEN db + 1 ELSE db)
                  \/ /\ MayReject
                     /\ Answer(req, hs, <<Call("DB", "run", insert, FALSE)>>,
                               errorJson("D1_ERROR: invalid"), kv, bucket, db)
        ELSE Answer(req, hs, << >>, TextResponse("Method not allowed", 405), kv, bucket, db)

\* GET and POST /mcp/upload/:key
handleMcpUpload(req, hs, key) ==
    LET object == BucketGet(key)
        contentType == ValueOrElse(req.contentType, "application/octet-stream")
    IN  IF req.method = "GET"
        THEN \/ Answer(req, hs, <<Call("BUCKET", "get", key, TRUE)>>,
                       IF ~object.found
                       THEN TextResponse("File not found", 404)
                       ELSE Resp(200, ValueOrElse(object.contentType, "application/octet-stream"),
                                 "", object.body),
                       kv, bucket, db)
             \/ /\ MayReject
                /\ Answer(req, hs, <<Call("BUCKET", "get", key, FALSE)>>,
                          errorJson("R2 get failed"), kv, bucket, db)
        ELSE IF req.method = "POST"
        THEN \/ Answer(req, hs, <<Call("BUCKET", "put", key, TRUE)>>,
                       JsonResponse("{\"success\":true,\"key\":" \o Quote(key) \o "}", 200),
                       kv, BucketPut(key, req.body, contentType), db)
             \/ /\ MayReject
                /\ Answer(req, hs, <<Call("BUCKET", "put", key, FALSE)>>,
                          errorJson("R2 put failed"), kv, bucket, db)
        ELSE Answer(req, hs, << >>, TextResponse("Method not allowed", 405), kv, bucket, db)

\* mono-jsx writes a text child with the characters of markup escaped
RECURSIVE escapeHTML(_)
escapeHTML(s) ==
    IF s = "" THEN ""
    ELSE LET c == SubSeq(s, 1, 1)
         IN  (IF c = "&" THEN "&amp;"
              ELSE IF c = "<" THEN "&lt;"
              ELSE IF c = ">" THEN "&gt;"
              ELSE IF c = "\"" THEN "&quot;"
              ELSE c)
             \o escapeHTML(SubSeq(s, 2, Len(s)))

\* Object.entries(themeConfig.colors) as custom properties; theme.json is not
\* part of the sources at hand, its primary colour is taken to be the one of
\* DEFAULT_THEME
cssVars == "--color-primary: #3b82f6"

\* baseStyles: the first rules and the rule of the editable region
baseStyles ==
    ":root { " \o cssVars \o " } "
    \o "* { margin: 0; padding: 0; box-sizing: border-box; } "
    \o ".container { max-width: 1024px; margin: 0 auto; padding: 2rem; } "
    \o "[contenteditable] { outline: 2px dashed var(--color-primary); outline-offset: 2px; }"

\* editScript: saveContent() of the edit mode, the alerts left out
editScript ==
    "function saveContent() { "
    \o "const editableContent = document.querySelector('[contenteditable]'); "
    \o "const slug = location.pathname === '/' ? 'home' : location.pathname.slice(1); "
    \o "fetch('/api/save/' + slug, { method: 'POST', "
    \o "headers: { 'Content-Type': 'application/json' }, "
    \o "body: JSON.stringify({ content: editableContent.innerHTML }) }) }"

\* the bar of the edit mode
editBar ==
    "<div class=\"edit-bar\"><button class=\"btn\">Save</button>"
    \o "<span style=\"margin-left: 1rem;\">Edit Mode</span></div>"

\* <main contentEditable={isEditMode}>: the attribute is written when true
mainElement(isEditMode, inner) ==
    "<main" \o (IF isEditMode THEN " contentEditable" ELSE "") \o ">" \o inner \o "</main>"

\* the document the three JSX trees share: head with title, styles and, in
\* edit mode, the script; body with, in edit mode, the bar, and the container
htmlDocument(status, title, isEditMode, main) ==
    Resp(status, "text/html; charset=utf-8", "",
         "<!DOCTYPE html><html lang=\"en\"><head><meta charSet=\"UTF-8\">"
         \o "<meta name=\"viewport\" content=\"width=device-width,initial-scale=1.0\">"
         \o "<title>" \o title \o "</title>"
         \o "<style>" \o baseStyles \o "</style>"
         \o (IF isEditMode THEN "<script>" \o editScript \o "</script>" ELSE "")
         \o "</head><body>"
         \o (IF isEditMode THEN editBar ELSE "")
         \o "<div class=\"container\">" \o main \o "</div></body></html>")

\* the built-in homepage, its three information boxes shortened to the first
homePage(isEditMode) ==
    htmlDocument(200, "VibeFlare - Agent-Controlled CMS", isEditMode,
        mainElement(isEditMode,
            "<h1>Welcome to VibeFlare</h1>"
            \o "<p>This is an MCP-compatible CMS powered by Cloudflare Workers. "
            \o "Agents can control content, data, and assets through our API.</p>"
            \o "<div class=\"mcp-info\"><h2>MCP Endpoints Available</h2>"
            \o "<pre>GET /mcp/pages POST /mcp/page/:slug</pre></div>"))

\* the page shown for a slug without content, status 404
notFoundPage(slug, isEditMode) ==
    htmlDocument(404, "Page Not Found - " \o escapeHTML(slug), isEditMode,
        mainElement(isEditMode,
            "<h1>Page &quot;" \o escapeHTML(slug) \o "&quot; Not Found</h1>"
            \o "<p>This page doesn't exist yet. You can create it using the MCP API:</p>"
            \o "<pre>curl -X POST https://your-worker.workers.dev/mcp/page/"
            \o escapeHTML(slug) \o "</pre>"
            \o "<p>Or <a href=\"/" \o escapeHTML(slug) \o "?edit\">start editing immediately</a></p>"))

\* the page of a slug with content: the content is the innerHTML of main
existingPage(slug, pageContent, isEditMode) ==
    htmlDocument(200, escapeHTML(slug) \o " - VibeFlare", isEditMode,
        mainElement(isEditMode, pageContent))

\* slug of /api/save/:slug
saveSlug(path) == Join(SliceSeq(Split(path, "/"), 3), "/")

\* /api/save/:slug
apiSave(req, hs) ==
    LET slug == saveSlug(req.path)
        key == pageKey(slug)
        parsed == Destructure(req)
    IN  IF req.method = "POST"
        THEN IF parsed.throws
             THEN Answer(req, hs, << >>, errorJson(parsed.error), kv, bucket, db)
             ELSE \/ Answer(req, hs, <<Call("CONTENT", "put", key, TRUE)>>,
                            JsonResponse("{\"success\":true}", 200),
                            ContentPut(key, JSString(parsed.content)), bucket, db)
                  \/ /\ MayReject
                     /\ Answer(req, hs, <<Call("CONTENT", "put", key, FALSE)>>,
                               errorJson("KV PUT failed"), kv, bucket, db)
        ELSE Answer(req, hs, << >>, TextResponse("Method not allowed", 405), kv, bucket, db)

\* slug of a page path
ssrSlug(path) == IF path = "/" THEN "home" ELSE Slice(path, 1)

ssrCreating(req, hs, isEditMode) ==
    LET slug == ssrSlug(req.path)
        key == pageKey(slug)
        pageContent == ContentGet(key)
    IN  IF Falsy(pageContent)
        THEN Answer(req, hs,
                    <<Call("CONTENT", "get", key, TRUE), Call("CONTENT", "put", key, TRUE)>>,
                    notFoundPage(slug, isEditMode), ContentPut(key, ""), bucket, db)
        ELSE Answer(req, hs, <<Call("CONTENT", "get", key, TRUE)>>,
                    existingPage(slug, pageContent.v, isEditMode), kv, bucket, db)

\* server-side rendering of a page
ssr(req, hs, isEditMode) ==
    LET slug == ssrSlug(req.path)
        key == pageKey(slug)
        pageContent == ContentGet(key)
    IN  IF slug = "home"
        THEN Answer(req, hs, << >>, homePage(isEditMode), kv, bucket, db)
        ELSE \/ Answer(req, hs, <<Call("CONTENT", "get", key, TRUE)>>,
                       IF Falsy(pageContent)
                       THEN notFoundPage(slug, isEditMode)
                       ELSE existingPage(slug, pageContent.v, isEditMode),
                       kv, bucket, db)
             \/ /\ MayReject
                /\ Answer(req, hs, <<Call("CONTENT", "get", key, FALSE)>>,
                          TextResponse("Internal Server Error", 500), kv, bucket, db)

\* path.split('/').slice(2)
mcpSegments(path) == SliceSeq(Split(path, "/"), 2)

\* the routes under /mcp/
mcpRoute(req) ==
    LET segments == mcpSegments(req.path)
    IN  IF segments[1] = "pages" /\ Len(segments) = 1
        THEN handleMcpPages(req, <<"handleMcpPages">>)
        ELSE IF segments[1] = "page" /\ Len(segments) = 2
        THEN handleMcpPage(req, <<"handleMcpPage">>, segments[2])
        ELSE IF segments[1] = "data" /\ Len(segments) = 2
        THEN handleMcpData(req, <<"handleMcpData">>, segments[2])
        ELSE IF segments[1] = "upload" /\ Len(segments) = 2
        THEN handleMcpUpload(req, <<"handleMcpUpload">>, segments[2])
        ELSE Answer(req, << >>, << >>, TextResponse("MCP endpoint not found", 404),
                    kv, bucket, db)

\* fetch of src/index.tsx
indexFetch(req) ==
    LET path == req.path
        isEditMode == SearchParamsHas(req.search, "edit")
    IN  IF StartsWith(path, "/mcp/") THEN mcpRoute(req)
        ELSE IF StartsWith(path, "/api/save/") THEN apiSave(req, <<"save">>)
        ELSE ssr(req, <<"ssr">>, isEditMode)

\* the requests sent to this worker
McpRequests ==
    {Req("GET", "/mcp/pages", "", "", Null)}
    \* reading and writing pages through /mcp/page/:slug
    \cup {Req("GET", "/mcp/page/" \o s, "", "", Null) : s \in {"about", "contact", "blog/hello-world"}}
    \cup {Req("POST", "/mcp/page/about", "", ContentBody(c), Str("application/json")) :
             c \in {"", "<b>A</b>", "<i>B</i>"}}
    \cup {Req("POST", "/mcp/page/" \o s, "", ContentBody("<b>A</b>"), Str("application/json")) :
             s \in {"contact", "blog/hello-world"}}
    \cup {Req("POST", "/mcp/page/about", "", b, Str("application/json")) :
             b \in {"{}", "null", "{content"}}
    \cup {Req("PUT", "/mcp/page/about", "", ContentBody("<b>A</b>"), Str("application/json")),
          Req("GET", "/mcp/other", "", "", Null)}
    \* rows and assets
    \cup {Req(m, "/mcp/data/posts", "", "", Null) : m \in {"GET", "PUT"}}
    \cup {Req("POST", "/mcp/data/posts", "", b, Str("application/json")) :
             b \in {ContentBody("<b>A</b>"), "{}", "null"}}
    \cup {Req(m, "/mcp/upload/a.css", "", "", Null) : m \in {"GET", "PUT"}}
    \cup {Req("POST", "/mcp/upload/a.css", "", "p{x}", t) : t \in {Null, Str("text/css")}}
    \* the save endpoint of the edit mode
    \cup {Req("POST", "/api/save/" \o s, "", ContentBody("<b>A</b>"), Str("application/json")) :
             s \in {"home", "about", "blog/post-1"}}
    \cup {Req("POST", "/api/save/blog/post-1", "", ContentBody(""), Str("application/json")),
          Req("POST", "/api/save/about", "", "{content", Str("application/json")),
          Req("GET", "/api/save/about", "", "", Null)}
    \* pages
    \cup {Req("GET", p, q, "", Null) :
             p \in {"/", "/home", "/about", "/contact", "/blog/post-1", "/blog/hello-world", "/mcp"},
             q \in {"", "?edit"}}

\* the worker runs with its bindings, or without them (local development)
IndexInit == Fresh /\ bindings \in BOOLEAN

IndexNext ==
    /\ handled < MaxRequests
    /\ handled' = handled + 1
    /\ \E req \in McpRequests : indexFetch(req)

IndexSpec == IndexInit /\ [][IndexNext]_vars

----------------------------------------------------------------------------
(* The two workers on the same bindings: pages written through either one   *)
(* and rendered by either one.                                              *)

\* page paths asked of both workers, a POST with a body among them: neither
\* renderer looks at the method
PagePaths ==
    {Req("GET", p, q, "", Null) : p \in {"/", "/about", "/contact"}, q \in {"", "?edit"}}
    \cup {Req("POST", "/contact", "", ContentBody("<b>A</b>"), Str("application/json"))}

\* page requests sent to the worker of src/wrangler.toml
ApiPageRequests ==
    {Req("POST", "/api/page/" \o s, "", ContentBody(c), Str("application/json")) :
        s \in {"home", "about"}, c \in {"", "<b>A</b>"}}
    \cup {Req("POST", "/api/page/styles", "", ContentBody("p{x}"), Str("application/json"))}
    \cup PagePaths

\* page requests sent to the worker of src/index.tsx
IndexPageRequests ==
    {Req("POST", "/mcp/page/about", "", ContentBody(c), Str("application/json")) :
        c \in {"", "<b>A</b>"}}
    \cup {Req("POST", "/api/save/" \o s, "", ContentBody(""), Str("application/json")) :
              s \in {"home", "contact"}}
    \cup {Req("GET", "/mcp/page/" \o s, "", "", Null) : s \in {"home", "about", "contact"}}
    \cup PagePaths

PagesNext ==
    /\ handled < MaxRequests
    /\ handled' = handled + 1
    /\ \/ /\ \E req \in ApiPageRequests : fetch(req)
          /\ UNCHANGED <<inflight, applied, bindings>>
       \/ \E req \in IndexPageRequests : indexFetch(req)

PagesSpec == Init /\ [][PagesNext]_vars

----------------------------------------------------------------------------
(* The claims *)

\* a request has been handled
Handled == handled > 0

\* the caller got a response, not a rejection
Responded == response.kind = "response"

\* the slug a page path names: home for the root, else the path without its
\* leading slash
SlugOf(path) == IF path = "/" THEN "home" ELSE SubSeq(path, 2, Len(path))

\* the request went to the page renderer and all its reads resolved
Rendered == Handled /\ handlers = <<"handlePageRender">> /\ Responded

\* a slug whose page path the router gives to another handler
ReservedSlug(s) == s = "mcp" \/ StartsWith(s, "api/") \/ StartsWith(s, "assets/")

\* a GET of the page path of a slug for which a page write with a string
\* content was answered with success
GetOfWrittenPage ==
    /\ Handled
    /\ request.method = "GET"
    /\ SlugOf(request.path) \in DOMAIN written
    /\ written[SlugOf(request.path)].t = "string"

\* no store call of the request was rejected
NoCallFailed == \A i \in 1..Len(calls) : calls[i].ok

\* C1 as stated: after a successful POST /api/page/s {content: C}, the GET of
\* the page path of s (/s, or / for home) answers with a body that contains C,
\* for every slug s.
C1_EverySlug ==
    (GetOfWrittenPage /\ NoCallFailed)
        => /\ Responded
           /\ Includes(response.body, written[SlugOf(request.path)].v)

\* C1 amended: the same for every slug whose page path the router gives to the
\* page renderer, that is every slug but mcp and those starting with api/ or
\* assets/.
C1_RenderedSlug ==
    (GetOfWrittenPage /\ NoCallFailed /\ ~ReservedSlug(SlugOf(request.path)))
        => /\ Responded
           /\ response.status = 200
           /\ Includes(response.body, written[SlugOf(request.path)].v)

C1_Witness ==
    /\ GetOfWrittenPage
    /\ request.path = "/"
    /\ written["home"].v = "<i>B</i>"
    /\ Responded
    /\ Includes(response.body, "<div><i>B</i></div>")

\* C2: after a successful POST /api/upload/k with body B and Content-Type T,
\* GET /assets/k answers 200 with body B and Content-Type T, and with
\* application/octet-stream when the upload had no Content-Type header.
C2_UploadThenGet ==
    (/\ Handled
     /\ request.method = "GET"
     /\ StartsWith(request.path, "/assets/")
     /\ SubSeq(request.path, 9, Len(request.path)) \in DOMAIN uploaded
     /\ NoCallFailed)
        => LET up == uploaded[SubSeq(request.path, 9, Len(request.path))]
           IN  /\ Responded
               /\ response.status = 200
               /\ response.body = up.body
               /\ (up.contentType.t = "string" /\ up.contentType.v # "")
                      => response.contentType = up.contentType.v
               /\ up.contentType.t = "null"
                      => response.contentType = "application/octet-stream"

C2_Witness ==
    /\ Handled
    /\ request.method = "GET"
    /\ request.path = "/assets/a.css"
    /\ "a.css" \in DOMAIN uploaded
    /\ uploaded["a.css"].contentType = Str("text/css")
    /\ Responded
    /\ response.status = 200
    /\ response.body = "p{x}"
    /\ response.contentType = "text/css"

\* C3: once Page[styles] has been written with X, every page render, for any
\* slug and either edit mode, has X in a style element, until Page[styles] is
\* written again.
C3_StylesInEveryRender ==
    (Rendered /\ "styles" \in DOMAIN written /\ written["styles"].t = "string")
        => LET X == written["styles"].v
           IN  /\ Includes(response.body, X)
               /\ X # "" => Includes(response.body, "<style>" \o X \o "</style>")

C3_Witness ==
    /\ Rendered
    /\ request.path = "/blog/x"
    /\ request.search = "?edit"
    /\ "styles" \in DOMAIN written
    /\ written["styles"].v = "p{x}"
    /\ Includes(response.body, "<style>p{x}</style>")

\* the page renderer answered for a slug under which no page is stored
RenderedAbsent == Rendered /\ ("page:" \o SlugOf(request.path)) \notin DOMAIN kv

\* the body has the "doesn't exist yet" message with the slug in it
NotCreatedYet(body, s) ==
    /\ Includes(body, "<h1>Page: " \o s \o "</h1>")
    /\ Includes(body, "This page doesn't exist yet.")

\* C4 as stated: the render of a slug with no stored page has the slug in its
\* body: the welcome message for home, the "doesn't exist yet" message with
\* the slug in it for every other slug.
C4_PlaceholderEmbedsSlug ==
    (RenderedAbsent /\ request.method = "GET")
        => LET s == SlugOf(request.path)
           IN  /\ Includes(response.body, s)
               /\ s = "home" => Includes(response.body, "<h1>Welcome to VibeFlare</h1>")
               /\ s # "home" => NotCreatedYet(response.body, s)

\* C4 amended: the render of a slug with no stored page is the welcome message
\* for home, the About message for about, the string form of the inherited
\* property for a slug that names a property of Object.prototype, and the
\* "doesn't exist yet" message with the slug in it for every other slug; the
\* welcome and About messages are fixed texts that do not embed the slug.
C4_Placeholder ==
    RenderedAbsent
        => LET s == SlugOf(request.path)
           IN  /\ s = "home" => Includes(response.body, "<h1>Welcome to VibeFlare</h1>")
               /\ s = "about"
                      => Includes(response.body, "<h1>About</h1> <p>This page was created automatically.")
               /\ s \in ObjectPrototypeNames
                      => \/ Includes(response.body, "{ [native code] }")
                         \/ Includes(response.body, "[object Object]")
               /\ s \notin {"home", "about"} \cup ObjectPrototypeNames
                      => NotCreatedYet(response.body, s)

C4_Witness ==
    /\ RenderedAbsent
    /\ request.path = "/blog/x"
    /\ NotCreatedYet(response.body, "blog/x")

\* the request is a POST /api/page/{slug} whose body is no JSON text or has no
\* content member
MalformedPagePost(req) ==
    /\ req.method = "POST"
    /\ StartsWith(req.path, "/api/page/")
    /\ MemberValue(req.body, "content").t # "string"

\* C5: a POST /api/page/{slug} whose body is not JSON, or is JSON without a
\* content, is answered by the handler with an error response (500 or 400)
\* that carries a message, and Page[slug] is left as it was.
C5_MalformedBodyAnswered ==
    [][MalformedPagePost(request')
          => /\ response'.kind = "response"
             /\ response'.status \in {400, 500}
             /\ response'.body # ""
             /\ kv' = kv]_vars

\* the request is a POST /api/sql {sql: Q} and the database rejected the query
SqlRejected ==
    /\ Handled
    /\ request.method = "POST"
    /\ request.path = "/api/sql"
    /\ MemberValue(request.body, "sql").t = "string"
    /\ calls # << >>
    /\ ~calls[1].ok

\* C6: when the database rejects the query of POST /api/sql {sql: Q}, the
\* answer is 400 with the JSON {success: false, error, sql: Q}, error not
\* empty, and nothing escapes the handler.
C6_SqlErrorAnswered ==
    SqlRejected
        => LET head == "{\"success\":false,\"error\":\""
               tail == "\",\"sql\":" \o Quote(MemberValue(request.body, "sql").v) \o "}"
           IN  /\ Responded
               /\ response.status = 400
               /\ response.contentType = "application/json"
               /\ StartsWith(response.body, head)
               /\ EndsWith(response.body, tail)
               /\ Len(response.body) > Len(head) + Len(tail)

C6_Witness ==
    /\ SqlRejected
    /\ request.body = SqlBody("SELEC")
    /\ response.status = 400
    /\ response.body
         = "{\"success\":false,\"error\":\"D1_ERROR: invalid\",\"sql\":\"SELEC\"}"

\* a call to the page store or the asset store was rejected
StoreCallFailed ==
    \E i \in 1..Len(calls) : ~calls[i].ok /\ calls[i].store \in {"CONTENT", "BUCKET"}

\* C7: when the store call of a page write, an upload, an asset read or a page
\* render fails, the request is answered with a 5xx response with a JSON error
\* body, and the failure never leaves fetch as a rejection.
C7_StoreFailureAnswered ==
    StoreCallFailed
        => /\ Responded
           /\ response.status \in 500..599
           /\ response.contentType = "application/json"

\* C8: for every method and path exactly one handler is selected: /mcp goes to
\* the instruction generator, /api/... to the API dispatch, /assets/... to the
\* asset read, everything else to the page render; a path under /api/ or
\* /assets/ never reaches the page renderer.
C8_OneHandler ==
    Handled
        => /\ Len(handlers) = 1
           /\ request.path = "/mcp" => handlers[1] = "generateMCPInstructions"
           /\ StartsWith(request.path, "/api/") => handlers[1] = "handleAPI"
           /\ StartsWith(request.path, "/assets/") => handlers[1] = "handleAssets"
           /\ (/\ request.path # "/mcp"
               /\ ~StartsWith(request.path, "/api/")
               /\ ~StartsWith(request.path, "/assets/"))
                  => handlers[1] = "handlePageRender"

C8_Witness ==
    /\ Handled
    /\ request.method = "PUT"
    /\ request.path = "/assets"
    /\ handlers = <<"handlePageRender">>

\* the body is the instruction document for the origin of the request
IsInstructions ==
    /\ Responded
    /\ response.status = 200
    /\ response.contentType = "text/plain"
    /\ StartsWith(response.body, "# VibeFlare CMS Instructions")
    /\ Includes(response.body, "POST " \o request.origin \o "/api/page/{slug}")

\* C9 as stated: the instruction document is returned only for GET /mcp; any
\* other method on /mcp is answered with not found or method not allowed.
C9_McpGetOnly ==
    (Handled /\ request.path = "/mcp" /\ request.method # "GET")
        => /\ Responded
           /\ response.status \in {404, 405}
           /\ ~IsInstructions

\* C9 amended: the instruction document is returned for every request whose
\* path is exactly /mcp, whatever its method.
C9_McpAnyMethod ==
    (Handled /\ request.path = "/mcp") => IsInstructions

C9_Witness ==
    /\ Handled
    /\ request.path = "/mcp"
    /\ request.method = "POST"
    /\ IsInstructions

\* the request is under /api/ and is none of POST /api/page/{slug},
\* POST /api/sql and POST /api/upload/{key}
OtherApiRequest(req) ==
    /\ StartsWith(req.path, "/api/")
    /\ ~(/\ req.method = "POST"
         /\ \/ StartsWith(req.path, "/api/page/")
            \/ req.path = "/api/sql"
            \/ StartsWith(req.path, "/api/upload/"))

\* C10: every other request under /api/ (another path, or another method on
\* one of the three paths) is answered with not found or method not allowed
\* and leaves the page, record and asset stores as they were.
C10_OtherApiRefused ==
    [][OtherApiRequest(request')
          => /\ response'.kind = "response"
             /\ response'.status \in {404, 405}
             /\ kv' = kv
             /\ bucket' = bucket
             /\ db' = db]_vars

C10_Witness ==
    /\ Handled
    /\ request.method = "PUT"
    /\ request.path = "/api/page/home"
    /\ Responded
    /\ response.status = 404
    /\ response.body = "API endpoint not found"

\* the asset reader answered a GET /assets/{key} and its read resolved
AssetRead ==
    /\ Handled
    /\ request.method = "GET"
    /\ StartsWith(request.path, "/assets/")
    /\ NoCallFailed

\* the key a path under /assets/ names
AssetKeyOf(path) == SubSeq(path, 9, Len(path))

\* C11: GET /assets/{key} answers 404 exactly when no asset is stored under
\* the key; otherwise it answers with the stored bytes, the stored content
\* type and a long-lived Cache-Control.
C11_AssetRead ==
    AssetRead
        => LET key == AssetKeyOf(request.path)
           IN  /\ Responded
               /\ response.status = 404 <=> key \notin DOMAIN bucket
               /\ key \in DOMAIN bucket
                      => /\ response.status = 200
                         /\ response.body = bucket[key].body
                         /\ response.contentType = bucket[key].contentType.v
                         /\ response.cacheControl = "public, max-age=31536000"

C11_Witness ==
    /\ AssetRead
    /\ request.path = "/assets/a.css"
    /\ "a.css" \in DOMAIN bucket
    /\ response.status = 200
    /\ response.body = "p{x}"
    /\ response.cacheControl = "public, max-age=31536000"

\* the endpoint path templates of the instruction document
EndpointTemplates == {"/api/page/{slug}", "/api/sql", "/api/upload/{key}", "/assets/{key}"}

\* C12: the body of the answer to /mcp is a function of the origin alone: it
\* is the instruction document of that origin whatever the stores hold,
\* whatever was handled before and whatever the query string is, so two
\* requests from one origin get the same bytes; and the origin is in front of
\* every endpoint path template.
C12_InstructionsOfOrigin ==
    (Handled /\ request.path = "/mcp")
        => /\ Responded
           /\ response.body = generateMCPInstructions(request.origin)
           /\ \A t \in EndpointTemplates : Includes(response.body, " " \o request.origin \o t)
           /\ \A o \in {Origin, OtherOrigin} \ {request.origin} :
                  ~Includes(response.body, o)

C12_Witness ==
    /\ handled = 3
    /\ kv # << >>
    /\ request.path = "/mcp"
    /\ request.search = "?edit"
    /\ Responded
    /\ Includes(response.body, "GET https://cms.example/assets/{key}")

\* C13: the slug of a page path is home for / and the path without its
\* leading slash otherwise, and the page is read under page:{slug}; so / and
\* /home render the same stored page, and a write to Page[home] shows at both.
C13_SlugAndAlias ==
    Rendered
        => /\ calls[1].key = "page:" \o SlugOf(request.path)
           /\ request.path \in {"/", "/home"}
                  => /\ calls[1].key = "page:home"
                     /\ ("home" \in DOMAIN written /\ written["home"].t = "string")
                            => Includes(response.body, written["home"].v)

C13_Witness ==
    /\ Rendered
    /\ request.path = "/home"
    /\ "home" \in DOMAIN written
    /\ written["home"].v = "<b>A</b>"
    /\ Includes(response.body, "<main><div><b>A</b></div></main>")

\* C14: a page is created by the first POST /api/page/{slug} and overwritten
\* whole by every later one: Page[slug] is exactly the content of the most
\* recent successful write to the slug, and only written slugs have a page.
C14_LastWriteStored ==
    /\ \A s \in DOMAIN written :
           /\ ("page:" \o s) \in DOMAIN kv
           /\ written[s].t = "string" => kv["page:" \o s] = written[s].v
    /\ \A k \in DOMAIN kv : \E s \in DOMAIN written : k = "page:" \o s

C14_Witness ==
    /\ handled = 3
    /\ IsPagePost(request)
    /\ Answered200(response)
    /\ "home" \in DOMAIN written
    /\ written["home"].v = "<i>B</i>"
    /\ kv["page:home"] = "<i>B</i>"

\* the store and key an invocation writes
TargetOf(req) ==
    IF IsPagePost(req) THEN <<"CONTENT", "page:" \o PostedSlug(req)>>
    ELSE <<"BUCKET", PostedKey(req)>>

\* what the store holds at a target, and what a request asks to be held there
StoredAt(t) ==
    IF t[1] = "CONTENT"
    THEN IF t[2] \in DOMAIN kv THEN <<kv[t[2]]>> ELSE << >>
    ELSE IF t[2] \in DOMAIN bucket THEN <<bucket[t[2]].body>> ELSE << >>

ValueOf(req) == IF IsPagePost(req) THEN PostedContent(req).v ELSE req.body

\* the invocations whose put to the target t the store applied, in that order
AppliedTo(t) == SelectSeq(applied, LAMBDA i : TargetOf(inflight[i].req) = t)

\* every invocation has returned
AllReturned == \A i \in DOMAIN inflight : inflight[i].pc = "done"

\* C15: of the writes to one slug or key that are in flight together, the
\* store holds the value of exactly one once they are done: that of the put
\* applied last, whatever the order of arrival and of return; and each of them
\* whose put the store applied is answered success, overwritten or not.
C15_LastAppliedWins ==
    \A i \in DOMAIN inflight :
        LET t == TargetOf(inflight[i].req)
            order == AppliedTo(t)
        IN  /\ order # << >> => StoredAt(t) = <<ValueOf(inflight[order[Len(order)]].req)>>
            /\ order = << >> => StoredAt(t) = << >>
            /\ (AllReturned /\ \E n \in DOMAIN applied : applied[n] = i)
                   => Answered200(inflight[i].out)

\* two writes of different contents to home overlapped: the one that arrived
\* first was applied last, and returned after the other
C15_Witness ==
    /\ AllReturned
    /\ Len(inflight) = 2
    /\ applied = <<2, 1>>
    /\ inflight[1].req.path = "/api/page/home"
    /\ inflight[2].req.path = "/api/page/home"
    /\ PostedContent(inflight[1].req).v = "<b>A</b>"
    /\ PostedContent(inflight[2].req).v = "<i>B</i>"
    /\ kv["page:home"] = "<b>A</b>"
    /\ Answered200(inflight[1].out)
    /\ Answered200(inflight[2].out)

\* the worker of src/index.tsx answered a request, with its bindings, and no
\* call on them rejected
IndexAnswered == Handled /\ bindings /\ NoCallFailed

\* the slugs of the stored pages, in the order of their keys
StoredSlugs == slugsOf(InKeyOrder({k \in DOMAIN kv : StartsWith(k, "page:")}))

\* C17: GET /mcp/pages answers {pages: L} with L exactly the slugs of the
\* stored pages, those written through /api/save/{slug} included: none
\* missing, none extra.
C17_ListsEveryPage ==
    (IndexAnswered /\ request.method = "GET" /\ request.path = "/mcp/pages")
        => /\ response.status = 200
           /\ response.body = "{\"pages\":" \o JsonArray(StoredSlugs) \o "}"

\* the slug a path under /mcp/page/ names
McpSlugOf(path) == SubSeq(path, 11, Len(path))

\* a GET /mcp/page/{slug} for a slug of one segment was answered
McpPageRead ==
    /\ IndexAnswered
    /\ request.method = "GET"
    /\ StartsWith(request.path, "/mcp/page/")
    /\ ~Includes(McpSlugOf(request.path), "/")

\* C18: GET /mcp/page/s answers {slug: s, content: C} with the content C of
\* the last successful write to s, and answers 404 'Page not found' exactly
\* when no page was ever written under s.
C18_ReadsBackWrite ==
    McpPageRead
        => LET s == McpSlugOf(request.path)
           IN  /\ (s \in DOMAIN written /\ written[s].t = "string")
                      => /\ response.status = 200
                         /\ response.body = "{\"slug\":" \o Quote(s) \o ",\"content\":"
                                            \o Quote(written[s].v) \o "}"
               /\ (response.status = 404 /\ response.body = "{\"error\":\"Page not found\"}")
                      <=> s \notin DOMAIN written

\* C19: POST /mcp/page/{slug} with a content creates or updates the page of
\* every slug, those with a / in them such as blog/hello-world included.
C19_WritesEverySlug ==
    (/\ IndexAnswered
     /\ request.method = "POST"
     /\ StartsWith(request.path, "/mcp/page/")
     /\ PostedContent(request).t = "string")
        => /\ response.status = 200
           /\ ("page:" \o McpSlugOf(request.path)) \in DOMAIN kv
           /\ kv["page:" \o McpSlugOf(request.path)] = PostedContent(request).v

\* a page path of the worker of src/index.tsx was rendered on a GET
IndexRendered ==
    /\ IndexAnswered
    /\ request.method = "GET"
    /\ ~StartsWith(request.path, "/mcp/")
    /\ ~StartsWith(request.path, "/api/save/")

\* C20: a content saved for a slug, home (the path /) and nested slugs
\* included, is the main content of the next render of the page of the slug.
C20_SavedContentRendered ==
    (/\ IndexRendered
     /\ SlugOf(request.path) \in DOMAIN written
     /\ written[SlugOf(request.path)].t = "string"
     /\ written[SlugOf(request.path)].v # "")
        => /\ response.status = 200
           /\ Includes(response.body, ">" \o written[SlugOf(request.path)].v \o "</main>")

\* a request under /api/ was answered with a response
ApiAnswered == Handled /\ StartsWith(request.path, "/api/") /\ Responded

\* C21: every response of an endpoint under /api/ is a JSON document with a
\* boolean success member, and the response of every failed request has an
\* error member as well.
C21_JsonWithSuccess ==
    ApiAnswered
        => /\ response.contentType = "application/json"
           /\ \/ StartsWith(response.body, "{\"success\":true")
              \/ StartsWith(response.body, "{\"success\":false")
           /\ response.status >= 400 => Includes(response.body, "\"error\":")

\* the page of a slug was rendered with, or without, the edit flag
EditRendered == Rendered /\ SearchParamsHas(request.search, "edit")
PlainRendered == Rendered /\ ~SearchParamsHas(request.search, "edit")

\* the method of the fetch call in the save script of a rendered page
ScriptMethod(html) ==
    LET open == "method: '"
        at == {i \in 1..(Len(html) - Len(open) + 1) : SubSeq(html, i, i + Len(open) - 1) = open}
        from == (CHOOSE i \in at : \A j \in at : i <= j) + Len(open)
        rest == SubSeq(html, from, Len(html))
        stop == {i \in 1..Len(rest) : SubSeq(rest, i, i) = "'"}
    IN  IF at = {} \/ stop = {} THEN ""
        ELSE SubSeq(rest, 1, (CHOOSE i \in stop : \A j \in stop : i <= j) - 1)

\* the markers of the edit mode in a rendered page: the editable region, the
\* script with its fetch to /api/page/ + slug, and the slug it is called with
EditMarkers(html, s) ==
    /\ Includes(html, "<main><div contenteditable=\"true\">")
    /\ Includes(html, "<script>")
    /\ Includes(html, "fetch('/api/page/' + slug, {")
    /\ Includes(html, "saveContent('" \o s \o "')")

\* the path the save script of the page of slug s sends to
SavePath(s) == "/api/page/" \o s

\* C22 as stated: a page rendered with the edit flag has the editable region
\* and the save script; the script saves with a PUT to /api/page/{s}, which
\* the API accepts; without the edit flag neither is emitted.
C22_SavesWithPut ==
    /\ EditRendered
           => LET s == SlugOf(request.path)
              IN  /\ EditMarkers(response.body, s)
                  /\ ScriptMethod(response.body) = "PUT"
                  /\ isPageWrite(SavePath(s), "PUT")
    /\ PlainRendered
           => /\ Includes(response.body, "<main><div>")
              /\ ~Includes(response.body, "<script>")

\* C22 amended: the same with POST in place of PUT, for slugs without an
\* apostrophe (the slug is written between apostrophes in the script): the
\* script saves with a POST to /api/page/{s}, the API accepts a POST to that
\* path as a page write of the slug s and refuses a PUT, and a page write that
\* is answered with success has stored its content under the slug.
C22_SavesWithPost ==
    /\ (EditRendered /\ ~Includes(SlugOf(request.path), "'"))
           => LET s == SlugOf(request.path)
              IN  /\ EditMarkers(response.body, s)
                  /\ ScriptMethod(response.body) = "POST"
                  /\ isPageWrite(SavePath(s), ScriptMethod(response.body))
                  /\ ~isPageWrite(SavePath(s), "PUT")
                  /\ putPageKey(apiPageSlug(SavePath(s))) = "page:" \o s
    /\ PlainRendered
           => /\ Includes(response.body, "<main><div>")
              /\ ~Includes(response.body, "<script>")
              /\ ~Includes(response.body, "saveContent")
    /\ (Handled /\ IsPagePost(request) /\ Answered200(response)
        /\ PostedContent(request).t = "string")
           => kv["page:" \o PostedSlug(request)] = PostedContent(request).v

C22_Witness ==
    /\ EditRendered
    /\ request.path = "/about"
    /\ ScriptMethod(response.body) = "POST"
    /\ Includes(response.body, "saveContent('about')")
    /\ Includes(response.body, "<body class=\"edit-mode\">")

\* what is stored under a key, as the renderer uses it: the stored text, or
\* the given text when nothing or the empty text is stored
StoredOr(key, text) == IF key \in DOMAIN kv /\ kv[key] # "" THEN kv[key] ELSE text

\* C23: the answer to a page render is determined by the path, the edit flag
\* and what is stored under page:{slug} and page:styles when the request is
\* made: status 200, content type text/html; charset=utf-8 and the page built
\* from the two stored values, so two renders with no write between them are
\* identical and a render after a write shows the stored value.
C23_RenderDetermined ==
    Rendered
        => LET s == SlugOf(request.path)
           IN  /\ response.status = 200
               /\ response.contentType = "text/html; charset=utf-8"
               /\ response.body =
                      generatePageHTML(StoredOr("page:" \o s, getDefaultPageContent(s)),
                                       SearchParamsHas(request.search, "edit"), s,
                                       StoredOr("page:styles", ""))

C23_Witness ==
    /\ Rendered
    /\ handled = 3
    /\ request.path = "/home"
    /\ request.search = "?edit"
    /\ "page:home" \in DOMAIN kv
    /\ kv["page:home"] = "<i>B</i>"
    /\ "page:styles" \in DOMAIN kv
    /\ Includes(response.body, "<div contenteditable=\"true\"><i>B</i></div>")
    /\ Includes(response.body, "<style>p{x}</style>")

\* C24: a request to a path under /assets/, whatever its method, issues no
\* put and leaves the page store, the records and the asset store unchanged.
C24_AssetsReadOnly ==
    [][StartsWith(request'.path, "/assets/")
          => /\ kv' = kv
             /\ bucket' = bucket
             /\ db' = db
             /\ \A i \in 1..Len(calls') : calls'[i].op = "get" /\ calls'[i].store = "BUCKET"]_vars

C24_Witness ==
    /\ Handled
    /\ request.path = "/assets/a.css"
    /\ request.method = "POST"
    /\ "a.css" \in DOMAIN bucket
    /\ bucket["a.css"].body = "p{x}"
    /\ calls = <<Call("BUCKET", "get", "a.css", TRUE)>>

\* the function g is f except, at most, at x
SameBut(f, g, x) ==
    /\ DOMAIN f \subseteq DOMAIN g
    /\ DOMAIN g \subseteq DOMAIN f \cup {x}
    /\ \A y \in DOMAIN f \ {x} : g[y] = f[y]

\* C27: a POST /api/page/s changes at most the entry Page[s], whatever it
\* holds: every other page, every asset and the records stay as they were;
\* a POST /api/upload/k changes at most the entry Asset[k]: every other asset,
\* every page and the records stay as they were, also when s and k are the
\* same text.
C27_WritesOneEntry ==
    [][/\ IsPagePost(request')
           => /\ SameBut(kv, kv', "page:" \o PostedSlug(request'))
              /\ bucket' = bucket
              /\ db' = db
       /\ IsUploadPost(request')
           => /\ SameBut(bucket, bucket', PostedKey(request'))
              /\ kv' = kv
              /\ db' = db]_vars

\* a page and an asset are stored under the same text, each with what was
\* sent for it, next to the style sheet
C27_Witness ==
    /\ Handled
    /\ IsUploadPost(request)
    /\ PostedKey(request) = "home"
    /\ Answered200(response)
    /\ "home" \in DOMAIN bucket
    /\ bucket["home"].body = "p{x}"
    /\ "page:home" \in DOMAIN kv
    /\ kv["page:home"] = "<b>A</b>"
    /\ "page:styles" \in DOMAIN kv

\* no invocation has called a store again after a call failed, nor issued the
\* same call twice
NoRetry ==
    \A i \in DOMAIN inflight :
        LET cs == inflight[i].calls
        IN  /\ \A n \in 1..Len(cs) : ~cs[n].ok => n = Len(cs)
            /\ \A m, n \in 1..Len(cs) :
                   (cs[m].store = cs[n].store /\ cs[m].op = cs[n].op /\ cs[m].key = cs[n].key)
                       => m = n

\* an invocation that has returned stays as it is: it has one outcome
OneOutcome ==
    \A i \in DOMAIN inflight : inflight[i].pc = "done" => inflight'[i] = inflight[i]

\* the steps an invocation can still take: the settling of a call it awaits,
\* or its return
StepOf(i) == ReadBody(i) \/ StorePut(i) \/ StoreGet(i) \/ StoreAll(i) \/ Return(i)

\* the most steps an invocation at a position has before it has returned
StepsLeft(pc) ==
    IF pc = "done" THEN 0
    ELSE IF pc \in {"resolved", "rejected"} THEN 1
    ELSE IF pc \in {"put", "all", "get", "get2"} THEN 2
    ELSE 3

\* an invocation that moves comes nearer to its return, and the others stay
\* where they are
NearerToReturn ==
    \A i \in DOMAIN inflight :
        \/ StepsLeft(inflight'[i].pc) < StepsLeft(inflight[i].pc)
        \/ /\ inflight'[i].pc = inflight[i].pc
           /\ inflight'[i].calls = inflight[i].calls
           /\ inflight'[i].out = inflight[i].out

WrittenWhole ==
    {PostedContent(inflight[j].req) : j \in {k \in DOMAIN inflight : IsPagePost(inflight[k].req)}}

\* the values the page store held under a key while the invocation was in
\* flight
HeldAt(inv, key) == {h[2] : h \in {g \in inv.held : g[1] = key}}

\* C29: the page a render returns is built from a value Page[slug] held at
\* some moment while the render was in flight (the default when it held
\* none) and a value Page[styles] held at some such moment; each is absent or
\* the whole content of one write.
C29_RenderReadsWholeValues ==
    \A i \in DOMAIN inflight :
        (/\ inflight[i].pc = "done"
         /\ ~StartsWith(inflight[i].req.path, "/api/")
         /\ ~StartsWith(inflight[i].req.path, "/assets/")
         /\ inflight[i].req.path # "/mcp"
         /\ inflight[i].out.kind = "response")
            => LET req == inflight[i].req
                   s == SlugOf(req.path)
               IN  \E c \in HeldAt(inflight[i], "page:" \o s) :
                   \E css \in HeldAt(inflight[i], "page:styles") :
                       /\ c = Null \/ c \in WrittenWhole
                       /\ css = Null \/ css \in WrittenWhole
                       /\ inflight[i].out.body =
                              generatePageHTML(
                                  IF c.t = "string" /\ c.v # "" THEN c.v
                                  ELSE getDefaultPageContent(s),
                                  SearchParamsHas(req.search, "edit"), s,
                                  IF css.t = "string" THEN css.v ELSE "")

\* a render of home that arrived first returned the content of a write that
\* arrived after it: the page held nothing, then that content, while the
\* render was in flight
C29_Witness ==
    /\ Len(inflight) = 2
    /\ AllReturned
    /\ inflight[1].req.path = "/home"
    /\ IsPagePost(inflight[2].req)
    /\ inflight[1].out.kind = "response"
    /\ Includes(inflight[1].out.body, "<div contenteditable=\"true\"><b>A</b></div>")
    /\ HeldAt(inflight[1], "page:home") = {Null, Str("<b>A</b>")}

\* the request is one of the three writes of the API, by method and path
MutatingRequest(req) ==
    /\ req.method = "POST"
    /\ \/ StartsWith(req.path, "/api/page/")
       \/ req.path = "/api/sql"
       \/ StartsWith(req.path, "/api/upload/")

\* the store a write of the API is for
StoreOf(req) ==
    IF StartsWith(req.path, "/api/page/") THEN "CONTENT"
    ELSE IF req.path = "/api/sql" THEN "DB" ELSE "BUCKET"

\* the body of the request can be read as the handler reads it
BodyReadable(req) ==
    \/ StartsWith(req.path, "/api/upload/")
    \/ req.body = "{}"
    \/ MemberValue(req.body, "content").t = "string"
    \/ MemberValue(req.body, "sql").t = "string"

\* at most one of the three stores differs between the two states, and none
\* unless changed holds
StoresChangeOnlyIn(store, changed) ==
    /\ (store # "CONTENT" \/ ~changed) => kv' = kv
    /\ (store # "BUCKET" \/ ~changed) => bucket' = bucket
    /\ (store # "DB" \/ ~changed) => db' = db

\* C16 as stated: every POST /api/page, /api/sql and /api/upload issues
\* exactly one call to exactly one store; either the whole effect of the
\* request is in that store or none of it is.
C16_ExactlyOneCall ==
    [][MutatingRequest(request')
          => /\ Len(calls') = 1
             /\ calls'[1].store = StoreOf(request')
             /\ StoresChangeOnlyIn(StoreOf(request'), calls'[1].ok)]_vars

\* C16 amended: every such request issues at most one call, to its own store:
\* exactly one when its body can be read, none when reading the body fails;
\* the stores change only by that call, and only when it resolves.
C16_AtMostOneCall ==
    [][MutatingRequest(request')
          => /\ Len(calls') <= 1
             /\ BodyReadable(request') <=> Len(calls') = 1
             /\ \A i \in 1..Len(calls') : calls'[i].store = StoreOf(request')
             /\ StoresChangeOnlyIn(StoreOf(request'), calls' # << >> /\ calls'[1].ok)]_vars

C16_Witness ==
    /\ Handled
    /\ request.path = "/api/sql"
    /\ request.body = SqlBody("INSERT INTO posts (title) VALUES ('a')")
    /\ calls = <<Call("DB", "all", "INSERT INTO posts (title) VALUES ('a')", TRUE)>>
    /\ db = 1
    /\ kv = << >>
    /\ bucket = << >>


\* the step handles a page-render request, in either worker
RenderStep ==
    /\ handled' = handled + 1
    /\ handlers' \in {<<"handlePageRender">>, <<"ssr">>}
    /\ ~StartsWith(request'.path, "/mcp/")
    /\ ~StartsWith(request'.path, "/api/")
    /\ ~StartsWith(request'.path, "/assets/")

\* no call of the request handled last is a write
NoWriteIssued(cs) == \A n \in DOMAIN cs : cs[n].op \in {"get", "list"}

\* C26: a page-render request, for a slug with a page or without one, with the
\* edit flag or without it, leaves every store as it was and issues no write;
\* the render of an absent slug does not create its page (both workers).
C26_RenderNeverWrites ==
    [][RenderStep
          => /\ kv' = kv /\ bucket' = bucket /\ db' = db
             /\ NoWriteIssued(calls')]_vars

\* the worker of src/index.tsx answered a POST of the page path of a slug
\* without a page, in edit mode or not, while another page is stored
C26_Witness ==
    /\ Handled /\ handlers = <<"ssr">>
    /\ request.method = "POST" /\ request.path = "/contact"
    /\ response.status = 404
    /\ "page:contact" \notin DOMAIN kv
    /\ "page:about" \in DOMAIN kv

\* the page stored under a slug is the empty string
StoredEmpty(s) == ("page:" \o s) \in DOMAIN kv /\ kv["page:" \o s] = ""

\* the body is the Not Found page of a slug
NotFoundBody(body, s) ==
    /\ Includes(body, "<title>Page Not Found - " \o s \o "</title>")
    /\ Includes(body, "<h1>Page &quot;" \o s \o "&quot; Not Found</h1>")

StubAnswered == Handled /\ ~bindings

\* a POST to one of the four write routes of src/index.tsx
StubWrite(req) ==
    /\ req.method = "POST"
    /\ \/ StartsWith(req.path, "/mcp/page/")
       \/ StartsWith(req.path, "/mcp/data/")
       \/ StartsWith(req.path, "/mcp/upload/")
       \/ StartsWith(req.path, "/api/save/")

\* C30: without a CONTENT binding every write request (POST /mcp/page,
\* /mcp/data, /mcp/upload, /api/save) answers success and no store is changed;
\* GET /mcp/pages answers an empty list and GET /mcp/page/{slug} answers 404.
C30_StubWritesSucceed ==
    StubAnswered
        => /\ StubWrite(request)
                  => /\ response.status = 200
                     /\ Includes(response.body, "\"success\":true")
           /\ kv = << >> /\ bucket = << >> /\ db = 0
           /\ (request.method = "GET" /\ request.path = "/mcp/pages")
                  => response.body = "{\"pages\":[]}"
           /\ (request.method = "GET" /\ StartsWith(request.path, "/mcp/page/"))
                  => response.status = 404

====
